---------------------------- MODULE Spec2Model ----------------------------
(***************************************************************************)
(* Form2Chat: the OTP lifecycle (src/routes/otp.js over the Otp model of   *)
(* src/unnamed/part_002) and the reliable send pipeline                    *)
(* (src/services/whatsappClient.js, the variant of lines 308-711).         *)
(*                                                                         *)
(* Spec      the OTP routes: POST /send (issue), GET /verify and           *)
(*           GET /status/:uuid, served by two concurrent request handlers  *)
(*           over one token collection, all for one phone number; the      *)
(*           collection's TTL index and the wall clock are further actors. *)
(* SpecSeq   the same routes served one request at a time, for every       *)
(*           request input of SendInputs, VerifyInputs and Codes.          *)
(* SpecGuess one request at a time for one number, with the history of     *)
(*           the wrong guesses made on each token.                         *)
(* SpecSend  calls of sendMessage, one at a time, against a client whose   *)
(*           readiness, page and raw sends behave in every way;            *)
(*           SpecSendFair adds that every awaited promise settles.         *)
(* SpecWatchdog  the client after startup: the adapter's events, the 30 s  *)
(*           timers of 'authenticated' and the runs of ensureReady.        *)
(* SpecRestart   the client after startup: the adapter's events and the    *)
(*           calls of restartClient and generateQRCode.                    *)
(* SpecBoot  the server from before initializeWhatsAppClient is called:    *)
(*           its calls, the adapter's events and the first watchdog.       *)
(* SpecContact   the contact form (handleContactForm of                    *)
(*           src/controllers/messageController.js), one request at a time, *)
(*           over a client whose readiness changes and whose sends end in  *)
(*           every way sendMessage can end.                                *)
(*                                                                         *)
(* A handler runs from one await to the next in one step.  A store         *)
(* operation and the synchronous code that follows it up to the next       *)
(* await are one action; Date.now() inside it is the clock at that step.   *)
(* Times are in milliseconds; the clock advances a minute at a time.       *)
(***************************************************************************)
EXTENDS Integers, Sequences, FiniteSets, TLC

(***************************************************************************)
(* Bounds of the model                                                     *)
(***************************************************************************)
\* the clock stops after MaxMinutes minutes
MaxMinutes == 6
\* at most MaxTokens tokens are ever created (uuidv4 values 1..MaxTokens)
MaxTokens == 2
\* at most MaxWatchdogs watchdogs (timers and runs of ensureReady) exist at a time
MaxWatchdogs == 2
\* the watchdogs begin at most MaxReinits reinitializations
MaxReinits == 2

(***************************************************************************)
(* Program constants                                                       *)
(***************************************************************************)
MinuteMs == 60 * 1000
OTP_COOLDOWN_MS == 2 * 60 * 1000
OTP_EXPIRY_MS == 5 * 60 * 1000
MAX_OTP_ATTEMPTS == 5

Procs == {"h1", "h2"}

(***************************************************************************)
(* Strings are sequences of one-character strings.                         *)
(***************************************************************************)
Digit == {"0", "1", "2", "3", "4", "5", "6", "7", "8", "9"}
Whitespace == {" "}

\* contactNumber.replace(/\s/g, '')
RemoveWhitespace(s) == SelectSeq(s, LAMBDA c : c \notin Whitespace)

\* the pattern without its upper bound on the digits: /^\+[1-9]\d{1,}$/
IsE164Unbounded(s) ==
    /\ Len(s) >= 3
    /\ s[1] = "+"
    /\ s[2] \in Digit \ {"0"}
    /\ \A i \in 3..Len(s) : s[i] \in Digit

\* /^\+[1-9]\d{1,14}$/.test(s)
IsE164(s) ==
    /\ Len(s) >= 3
    /\ Len(s) <= 16
    /\ s[1] = "+"
    /\ s[2] \in Digit \ {"0"}
    /\ \A i \in 3..Len(s) : s[i] \in Digit

\* cleanedNumber.startsWith('+') ? cleanedNumber : `+${cleanedNumber}`
WithPlus(s) == IF Len(s) >= 1 /\ s[1] = "+" THEN s ELSE <<"+">> \o s

Digits14 == <<"2", "3", "4", "5", "6", "7", "8", "9", "0", "1", "2", "3", "4", "5">>
\* the shortest and the longest number the route accepts
NumA == <<"+", "1", "2">>
NumB == <<"+", "1">> \o Digits14

\* req.body.contactNumber of POST /send
SendInputs ==
    { NumA, NumB,
      <<" ", "+", "1", " ", "2">>,
      <<>>,
      <<" ">>,
      <<"+", "1">>,
      <<"1", "2">>,
      <<"+", "0", "2">>,
      <<"+", "1", "a">>,
      <<"+", "1", "2", "+">>,
      NumB \o <<"6">> }

\* req.query.contactNumber of GET /verify
VerifyInputs == { NumA, <<"1", " ", "2">>, NumB }

\* generateOTP() draws one of these
Codes == {"123456", "654321"}

VARIABLES
    now,        \* Date.now(), ms
    store,      \* the committed documents of the Otp collection
    nextUuid,   \* the next value uuidv4() returns
    h,          \* the request handlers: what each is doing, its locals, its response
    wrong,      \* history: per uuid, the wrong-code verify calls that found the token (up to the cap)
    consumed,   \* history: the uuids whose verification has committed
    client,     \* the WhatsApp client object as sendMessage sees it
    snd,        \* one call of sendMessage: its position, locals, result and history
    pending,    \* the raw sends (client.sendMessage) started and not yet settled
    readyReceived,  \* the module flag the 'ready' and 'disconnected' handlers write
    boot,       \* the client.initialize() of initializeWhatsAppClient: none | initializing | settled
    authDue,    \* an initialize has been called whose 'authenticated' event is still to come
    restart,    \* the calls of restartClient
    qr,         \* the call of generateQRCode
    wd,         \* the watchdogs: the 30 s timers of 'authenticated' and the runs of ensureReady
    hist,       \* history: reinitializations the watchdogs began, whether the session was ever
                \* ready, the clients made and connected by initializeWhatsAppClient, and
                \* whether it was called again with a client
    cf          \* the contact form handler: its position, locals and response

otpVars == <<now, store, nextUuid, h, wrong, consumed>>
sendVars == <<client, snd, pending>>
lifeVars == <<readyReceived, boot, authDue, restart, qr, wd, hist>>
vars == <<now, store, nextUuid, h, wrong, consumed, client, snd, pending,
          readyReceived, boot, authDue, restart, qr, wd, hist, cf>>

NoRec == [uuid |-> 0, contactNumber |-> <<>>, otp |-> "", createdAt |-> 0, attempts |-> 0]

\* a handler between requests
Idle ==
    [ op    |-> "none",     \* issue | verify | status
      pc    |-> "idle",
      cn    |-> <<>>,       \* cleanedNumber / formattedNumber
      uuid  |-> 0,          \* req.query.uuid / req.params.uuid
      otp   |-> "",         \* req.query.otp
      rec   |-> NoRec,      \* otpRecord
      snap  |-> {},         \* the transaction's snapshot of the documents it goes on to delete
      txn   |-> "none",     \* the session's transaction: none | active | committed | aborted
      res   |-> "none",     \* the response sent
      remaining |-> -1,     \* attemptsRemaining of the response
      expired |-> FALSE,    \* isExpired of the response
      at    |-> 0,          \* Date.now() of a verify query that found no document
      messageId |-> "",     \* what sendMessage returned
      peers |-> {} ]        \* issue calls for the same number whose transactions overlap this one's

\* the documents handler p's open transaction has written (and so locked)
WriteSet(p) ==
    IF h[p].txn # "active" THEN {}
    ELSE IF h[p].op = "verify" /\ h[p].pc \in {"abortMismatch", "deleteCommit"} THEN {h[p].rec.uuid}
    ELSE IF h[p].op = "issue" /\ h[p].pc = "save" THEN {t.uuid : t \in h[p].snap}
    ELSE {}

\* a store in which transactions never conflict
NeverLocked(p, u) == FALSE

\* a write of document u by p conflicts with another transaction's uncommitted write
Locked(p, u) == \E q \in Procs \ {p} : u \in WriteSet(q)

\* handleContactForm at rest
NoForm ==
    [ pc |-> "idle",
      customerMsgId |-> "",   \* "" is undefined
      adminMsgId |-> "",
      customerErr |-> {},     \* the message of the error the customer send threw
      adminErr |-> {},        \* the message of the error the admin send threw
      caught |-> {},          \* the message of the error the outer catch block got
      saved |-> FALSE,        \* dbEntry
      customerMessageSent |-> FALSE,  \* response.details
      adminMessageSent |-> FALSE,
      status |-> 0 ]          \* the HTTP status of the response (0: none yet)

\* the collection is empty and no request is being served
InitOtp ==
    /\ cf = NoForm
    /\ now = 0
    /\ store = {}
    /\ nextUuid = 1
    /\ h = [p \in Procs |-> Idle]
    /\ wrong = [u \in 1..MaxTokens |-> 0]
    /\ consumed = {}

\* the wall clock
Tick ==
    /\ now < MaxMinutes * MinuteMs
    /\ now' = now + MinuteMs
    /\ UNCHANGED <<store, nextUuid, h, wrong, consumed>>
    /\ UNCHANGED sendVars
    /\ UNCHANGED lifeVars
    /\ UNCHANGED cf

(***************************************************************************)
(* POST /send                                                              *)
(***************************************************************************)
\* lines 61-75: the number is present and, cleaned, matches the pattern
ValidContact(input) == input # <<>> /\ IsE164(RemoveWhitespace(input))

\* issue calls that are past the cooldown check and have not yet drawn their uuid
PendingIssues == {q \in Procs : h[q].op = "issue" /\ h[q].pc = "deleteMany"}

\* issue calls for number cn inside their transaction
ActiveIssues(cn) ==
    {q \in Procs : h[q].op = "issue" /\ h[q].txn = "active" /\ h[q].cn = cn
                    /\ h[q].pc \in {"deleteMany", "save"}}

\* validation fails: 400, before any session is started
IssueRejected(p, input) ==
    /\ h[p].pc = "idle"
    /\ ~ValidContact(input)
    /\ h' = [h EXCEPT ![p] = [Idle EXCEPT !.op = "issue", !.pc = "done",
                                          !.cn = RemoveWhitespace(input),
                                          !.res = "validation400"]]
    /\ UNCHANGED <<now, store, nextUuid, wrong, consumed>>
    /\ UNCHANGED sendVars
    /\ UNCHANGED lifeVars
    /\ UNCHANGED cf

\* Otp.findOne({contactNumber, createdAt: {$gt: now - OTP_COOLDOWN_MS}})
RecentOtps(cn) ==
    {t \in store : t.contactNumber = cn /\ t.createdAt > now - OTP_COOLDOWN_MS}

\* validation passes; startSession, startTransaction, the cooldown findOne and
\* what follows it up to the next await (abortTransaction or deleteMany)
IssueFind(p, input) ==
    /\ h[p].pc = "idle"
    /\ ValidContact(input)
    /\ nextUuid + Cardinality(PendingIssues) <= MaxTokens
    /\ LET cn == WithPlus(RemoveWhitespace(input))
           base == [Idle EXCEPT !.op = "issue", !.cn = RemoveWhitespace(input),
                                !.txn = "active",
                                !.peers = ActiveIssues(cn) \ {p}]
       IN  \/ /\ RecentOtps(cn) # {}
              /\ h' = [h EXCEPT ![p] = [base EXCEPT !.pc = "abortCooldown"]]
           \/ /\ RecentOtps(cn) = {}
              /\ h' = [h EXCEPT ![p] =
                         [base EXCEPT !.pc = "deleteMany",
                                      !.snap = {t \in store : t.contactNumber = cn}]]
    /\ UNCHANGED <<now, store, nextUuid, wrong, consumed>>
    /\ UNCHANGED sendVars
    /\ UNCHANGED lifeVars
    /\ UNCHANGED cf

\* lines 89-95: abortTransaction, then 429 with retryAfter
IssueAbortCooldown(p) ==
    /\ h[p].op = "issue" /\ h[p].pc = "abortCooldown"
    /\ h' = [h EXCEPT ![p].pc = "done", ![p].txn = "aborted", ![p].res = "cooldown429"]
    /\ UNCHANGED <<now, store, nextUuid, wrong, consumed>>
    /\ UNCHANGED sendVars
    /\ UNCHANGED lifeVars
    /\ UNCHANGED cf

\* a document the transaction read has since been changed or removed by a commit,
\* or carries another transaction's uncommitted write: WriteConflict
DeleteConflict(p) == \E t \in h[p].snap : t \notin store \/ Locked(p, t.uuid)

\* deleteMany({contactNumber}) in the transaction, then lines 102-118: the new
\* document (createdAt defaults to Date.now) and the call of save
IssueDeleteMany(p, otp) ==
    /\ h[p].op = "issue" /\ h[p].pc = "deleteMany"
    /\ \/ /\ DeleteConflict(p)
          /\ h' = [h EXCEPT ![p].pc = "abortError", ![p].snap = {}]
          /\ UNCHANGED nextUuid
       \/ /\ ~DeleteConflict(p)
          /\ h' = [h EXCEPT ![p].pc = "save",
                         ![p].rec = [uuid |-> nextUuid, contactNumber |-> WithPlus(h[p].cn),
                                     otp |-> otp, createdAt |-> now, attempts |-> 0]]
          /\ nextUuid' = nextUuid + 1
    /\ UNCHANGED <<now, store, wrong, consumed>>
    /\ UNCHANGED sendVars
    /\ UNCHANGED lifeVars
    /\ UNCHANGED cf

\* otpRecord.save({session}), commitTransaction, endSession; sendMessage is called
IssueSaveCommit(p) ==
    /\ h[p].op = "issue" /\ h[p].pc = "save"
    /\ store' = (store \ h[p].snap) \cup {h[p].rec}
    /\ h' = [h EXCEPT ![p].pc = "send", ![p].txn = "committed", ![p].snap = {}]
    /\ UNCHANGED <<now, nextUuid, wrong, consumed>>
    /\ UNCHANGED sendVars
    /\ UNCHANGED lifeVars
    /\ UNCHANGED cf

\* what whatsappClient.sendMessage comes back with: a message id, or it throws
SendOutcomes == {"sent", "failed"}

\* a handler that answers 200 whatever sendMessage did
IssueResponseAlwaysOk(outcome) == "issued200"

\* the response once sendMessage has settled.  When it throws, the inner catch calls
\* abortTransaction on the committed session, which cannot undo the commit (the
\* driver throws, and the outer catch answers 500)
IssueResponse(outcome) == IF outcome = "sent" THEN "issued200" ELSE "error500"

\* const messageId = await whatsappClient.sendMessage(...)
MessageId(outcome) == IF outcome = "sent" THEN "id" ELSE ""

IssueSendDone(p, outcome) ==
    /\ h[p].op = "issue" /\ h[p].pc = "send"
    /\ h' = [h EXCEPT ![p].pc = "done", ![p].res = IssueResponse(outcome),
                      ![p].messageId = MessageId(outcome)]
    /\ UNCHANGED <<now, store, nextUuid, wrong, consumed>>
    /\ UNCHANGED sendVars
    /\ UNCHANGED lifeVars
    /\ UNCHANGED cf

\* lines 170-183 after a WriteConflict: abortTransaction, endSession, 500
IssueAbortError(p) ==
    /\ h[p].op = "issue" /\ h[p].pc = "abortError"
    /\ h' = [h EXCEPT ![p].pc = "done", ![p].txn = "aborted", ![p].res = "error500"]
    /\ UNCHANGED <<now, store, nextUuid, wrong, consumed>>
    /\ UNCHANGED sendVars
    /\ UNCHANGED lifeVars
    /\ UNCHANGED cf

(***************************************************************************)
(* GET /verify                                                             *)
(***************************************************************************)
\* the filter without its createdAt clause
EligibleNoExpiry(t, uuid, cn) ==
    /\ t.uuid = uuid
    /\ t.contactNumber = cn
    /\ t.attempts < MAX_OTP_ATTEMPTS

\* a filter that does not look at the contact number
EligibleAnyNumber(t, uuid, cn) ==
    /\ t.uuid = uuid
    /\ t.attempts < MAX_OTP_ATTEMPTS
    /\ t.createdAt > now - OTP_EXPIRY_MS

\* the filter of findOneAndUpdate: uuid, contactNumber, attempts < MAX_OTP_ATTEMPTS,
\* createdAt > now - 5 min
Eligible(t, uuid, cn) ==
    /\ t.uuid = uuid
    /\ t.contactNumber = cn
    /\ t.attempts < MAX_OTP_ATTEMPTS
    /\ t.createdAt > now - OTP_EXPIRY_MS

\* lines 203-215: the transaction is started, then uuid, contactNumber or otp is
\* found missing and the handler returns 400 without ending the transaction
VerifyMissing(p) ==
    /\ h[p].pc = "idle"
    /\ h' = [h EXCEPT ![p] = [Idle EXCEPT !.op = "verify", !.pc = "done",
                                          !.txn = "active", !.res = "required400"]]
    /\ UNCHANGED <<now, store, nextUuid, wrong, consumed>>
    /\ UNCHANGED sendVars
    /\ UNCHANGED lifeVars
    /\ UNCHANGED cf

\* the document the update returns ({new: true}): attempts already incremented
Incremented(t) == [t EXCEPT !.attempts = @ + 1]

\* startTransaction, findOneAndUpdate({...}, {$inc: {attempts: 1}}) and what follows
\* it up to the next await: abortTransaction (no document, or a wrong code) or
\* deleteOne; a document locked by another transaction throws WriteConflict
VerifyFind(p, uuid, input, otp, count) ==
    /\ h[p].pc = "idle"
    /\ LET cn   == WithPlus(RemoveWhitespace(input))
           hit  == {t \in store : Eligible(t, uuid, cn)}
           base == [Idle EXCEPT !.op = "verify", !.cn = cn, !.uuid = uuid, !.otp = otp,
                                !.txn = "active"]
       IN  \/ /\ hit = {}
              /\ h' = [h EXCEPT ![p] = [base EXCEPT !.pc = "abortInvalid", !.at = now]]
              /\ UNCHANGED wrong
           \/ \E t \in hit :
                 \/ /\ Locked(p, t.uuid)
                    /\ h' = [h EXCEPT ![p] = [base EXCEPT !.pc = "abortError"]]
                    /\ UNCHANGED wrong
                 \/ /\ ~Locked(p, t.uuid)
                    /\ t.otp # otp
                    /\ h' = [h EXCEPT ![p] = [base EXCEPT !.pc = "abortMismatch",
                                                          !.rec = Incremented(t)]]
                    /\ wrong' = IF count /\ wrong[uuid] < MAX_OTP_ATTEMPTS
                                THEN [wrong EXCEPT ![uuid] = @ + 1]
                                ELSE wrong
                 \/ /\ ~Locked(p, t.uuid)
                    /\ t.otp = otp
                    /\ h' = [h EXCEPT ![p] = [base EXCEPT !.pc = "deleteCommit",
                                                          !.rec = Incremented(t)]]
                    /\ UNCHANGED wrong
    /\ UNCHANGED <<now, store, nextUuid, consumed>>
    /\ UNCHANGED sendVars
    /\ UNCHANGED lifeVars
    /\ UNCHANGED cf

\* lines 241-257: abortTransaction, endSession, 400 invalid or expired
VerifyAbortInvalid(p) ==
    /\ h[p].op = "verify" /\ h[p].pc = "abortInvalid"
    /\ h' = [h EXCEPT ![p].pc = "done", ![p].txn = "aborted", ![p].res = "invalid400",
                      ![p].at = 0]
    /\ UNCHANGED <<now, store, nextUuid, wrong, consumed>>
    /\ UNCHANGED sendVars
    /\ UNCHANGED lifeVars
    /\ UNCHANGED cf

\* lines 260-278: abortTransaction (the increment is part of the transaction and
\* goes with it), endSession, 400 incorrect with attemptsRemaining
VerifyAbortMismatch(p) ==
    /\ h[p].op = "verify" /\ h[p].pc = "abortMismatch"
    /\ h' = [h EXCEPT ![p].pc = "done", ![p].txn = "aborted", ![p].res = "mismatch400",
                      ![p].remaining = MAX_OTP_ATTEMPTS - h[p].rec.attempts]
    /\ UNCHANGED <<now, store, nextUuid, wrong, consumed>>
    /\ UNCHANGED sendVars
    /\ UNCHANGED lifeVars
    /\ UNCHANGED cf

\* a verification that commits without the deleteOne
VerifyCommitKeepsToken(p) ==
    /\ h[p].op = "verify" /\ h[p].pc = "deleteCommit"
    /\ h' = [h EXCEPT ![p].pc = "confirm", ![p].txn = "committed"]
    /\ consumed' = consumed \cup {h[p].rec.uuid}
    /\ UNCHANGED <<now, store, nextUuid, wrong>>
    /\ UNCHANGED sendVars
    /\ UNCHANGED lifeVars
    /\ UNCHANGED cf

\* lines 285-287: deleteOne({_id}) in the transaction, commitTransaction, endSession;
\* the confirmation sendMessage is called
VerifyDeleteCommit(p) ==
    /\ h[p].op = "verify" /\ h[p].pc = "deleteCommit"
    /\ store' = {t \in store : t.uuid # h[p].rec.uuid}
    /\ h' = [h EXCEPT ![p].pc = "confirm", ![p].txn = "committed"]
    /\ consumed' = consumed \cup {h[p].rec.uuid}
    /\ UNCHANGED <<now, nextUuid, wrong>>
    /\ UNCHANGED sendVars
    /\ UNCHANGED lifeVars
    /\ UNCHANGED cf

\* a verification whose answer depends on the confirmation send
VerifyConfirmFailsOnSendError(p, outcome) ==
    /\ h[p].op = "verify" /\ h[p].pc = "confirm"
    /\ h' = [h EXCEPT ![p].pc = "done",
                      ![p].res = IF outcome = "sent" THEN "verified200" ELSE "error500",
                      ![p].messageId = MessageId(outcome)]
    /\ UNCHANGED <<now, store, nextUuid, wrong, consumed>>
    /\ UNCHANGED sendVars
    /\ UNCHANGED lifeVars
    /\ UNCHANGED cf

\* lines 290-317: the confirmation send settles either way, then 200
VerifyConfirm(p, outcome) ==
    /\ h[p].op = "verify" /\ h[p].pc = "confirm"
    /\ h' = [h EXCEPT ![p].pc = "done", ![p].res = "verified200",
                      ![p].messageId = MessageId(outcome)]
    /\ UNCHANGED <<now, store, nextUuid, wrong, consumed>>
    /\ UNCHANGED sendVars
    /\ UNCHANGED lifeVars
    /\ UNCHANGED cf

\* lines 318-336 after a WriteConflict: abortTransaction, endSession, 500
VerifyAbortError(p) ==
    /\ h[p].op = "verify" /\ h[p].pc = "abortError"
    /\ h' = [h EXCEPT ![p].pc = "done", ![p].txn = "aborted", ![p].res = "error500"]
    /\ UNCHANGED <<now, store, nextUuid, wrong, consumed>>
    /\ UNCHANGED sendVars
    /\ UNCHANGED lifeVars
    /\ UNCHANGED cf

(***************************************************************************)
(* GET /status/:uuid                                                       *)
(***************************************************************************)
\* otpSchema.methods.isExpired: now > createdAt + 5 min
IsExpired(t) == now > t.createdAt + OTP_EXPIRY_MS

\* Otp.findOne({uuid}) and what follows it: 404, the response, or the call of deleteOne
StatusFind(p, uuid) ==
    /\ h[p].pc = "idle"
    /\ LET hit  == {t \in store : t.uuid = uuid}
           base == [Idle EXCEPT !.op = "status", !.uuid = uuid]
       IN  \/ /\ hit = {}
              /\ h' = [h EXCEPT ![p] = [base EXCEPT !.pc = "done", !.res = "notfound404"]]
           \/ \E t \in hit :
                 h' = [h EXCEPT ![p] =
                         IF IsExpired(t)
                         THEN [base EXCEPT !.pc = "statusDelete", !.rec = t, !.expired = TRUE]
                         ELSE [base EXCEPT !.pc = "done", !.rec = t, !.res = "status200"]]
    /\ UNCHANGED <<now, store, nextUuid, wrong, consumed>>
    /\ UNCHANGED sendVars
    /\ UNCHANGED lifeVars
    /\ UNCHANGED cf

\* a status call that reports an expired token and leaves it in the collection
StatusDeleteKeepsToken(p) ==
    /\ h[p].op = "status" /\ h[p].pc = "statusDelete"
    /\ h' = [h EXCEPT ![p].pc = "done", ![p].res = "status200"]
    /\ UNCHANGED <<now, store, nextUuid, wrong, consumed>>
    /\ UNCHANGED sendVars
    /\ UNCHANGED lifeVars
    /\ UNCHANGED cf

\* Otp.deleteOne({_id}) outside any transaction (it waits for a transaction that
\* holds the document), then the response
StatusDelete(p) ==
    /\ h[p].op = "status" /\ h[p].pc = "statusDelete"
    /\ ~Locked(p, h[p].rec.uuid)
    /\ store' = {t \in store : t.uuid # h[p].rec.uuid}
    /\ h' = [h EXCEPT ![p].pc = "done", ![p].res = "status200"]
    /\ UNCHANGED <<now, nextUuid, wrong, consumed>>
    /\ UNCHANGED sendVars
    /\ UNCHANGED lifeVars
    /\ UNCHANGED cf

(***************************************************************************)
(* The collection                                                          *)
(***************************************************************************)
\* createdAt: {expires: 300}: the TTL index removes a document some time after it
\* is 300 s old
TtlExpire ==
    /\ \E t \in store :
          /\ t.createdAt + OTP_EXPIRY_MS <= now
          /\ \A q \in Procs : t.uuid \notin WriteSet(q)
          /\ store' = store \ {t}
    /\ UNCHANGED <<now, nextUuid, h, wrong, consumed>>
    /\ UNCHANGED sendVars
    /\ UNCHANGED lifeVars
    /\ UNCHANGED cf

\* the response is out; the handler takes the next request
Reset(p) ==
    /\ h[p].pc = "done"
    /\ h' = [q \in Procs |-> IF q = p THEN Idle ELSE [h[q] EXCEPT !.peers = @ \ {p}]]
    /\ UNCHANGED <<now, store, nextUuid, wrong, consumed>>
    /\ UNCHANGED sendVars
    /\ UNCHANGED lifeVars
    /\ UNCHANGED cf

(***************************************************************************)
(* sendMessage (whatsappClient.js lines 458-578)                           *)
(*                                                                         *)
(* An error message is the set of the phrases it contains, so that         *)
(* error.message.includes(x) is membership.                                *)
(***************************************************************************)
\* const maxRetries = 3
maxRetries == 3

\* what client.state can hold
RawStates == {"undefined", "CONNECTED", "OPENING", "UNPAIRED"}

\* the messages sendMessage throws itself
NotReadyMsg == {"not ready"}
InvalidNumberMsg == {"Invalid phone number"}
InvalidContentMsg == {"Invalid message content"}
TimeoutMsg == {"timeout"}
NoConfirmationMsg == {"no confirmation received"}
\* reading client.state when there is no client object
TypeErrorMsg == {"Cannot read properties"}

\* the messages client.sendMessage rejects with
AdapterErrors ==
    { {"Evaluation failed"}, {"Protocol error"}, {"Target closed"},
      {"not authenticated"}, {"Evaluation failed", "not authenticated"},
      {"unknown"} }

\* lines 531-533
IsTransient(msg) ==
    \/ "Evaluation failed" \in msg
    \/ "Protocol error" \in msg
    \/ "Target closed" \in msg

\* the test without its 'Invalid message content' clause
IsNonRetryableButContent(msg) ==
    \/ "Invalid phone number" \in msg
    \/ "not authenticated" \in msg

\* lines 568-570
IsNonRetryable(msg) ==
    \/ "Invalid phone number" \in msg
    \/ "Invalid message content" \in msg
    \/ "not authenticated" \in msg

\* `Failed to send message after ${maxRetries} attempts: ${error.message}`
Exhausted(msg) == msg \cup {"Failed to send message after 3 attempts"}

\* the channel suffix, one symbol of a string
Suffix == "@c.us"

RECURSIVE TrimLeft(_)
TrimLeft(s) == IF s # <<>> /\ Head(s) \in Whitespace THEN TrimLeft(Tail(s)) ELSE s

RECURSIVE TrimRight(_)
TrimRight(s) ==
    IF s # <<>> /\ s[Len(s)] \in Whitespace THEN TrimRight(SubSeq(s, 1, Len(s) - 1)) ELSE s

\* String.prototype.trim
Trim(s) == TrimRight(TrimLeft(s))

\* lines 485-494
ChatId(number) ==
    LET t == Trim(number)
    IN  IF \E i \in 1..Len(t) : t[i] = Suffix
        THEN t
        ELSE LET d == SelectSeq(t, LAMBDA c : c \in Digit \cup {"+"})
                 e == IF d # <<>> /\ d[1] = "+" THEN Tail(d) ELSE d
             IN  e \o <<Suffix>>

\* lines 466 and 475: client.info || currentState === 'CONNECTED'
ClientReady(currentState) == client.info \/ currentState = "CONNECTED"

\* the numbers and the message bodies sendMessage is called with
SendNumbers ==
    { <<"+", "1", "2">>, <<" ", "1", "2", " ">>, <<"1", "2", Suffix>>,
      <<"a", "b">>, <<"1", "+", "2">>, <<>> }
SendBodies == { <<"h", "i">>, <<" ", "h", "i", " ">>, <<" ">>, <<>> }

\* no call of sendMessage is running
NoSend ==
    [ pc |-> "idle",
      number |-> <<>>,
      message |-> <<>>,
      retryCount |-> 0,
      currentState |-> "undefined",   \* the local of the readiness test
      chatId |-> <<>>,        \* what the last raw send was given
      err |-> {},             \* the message of the error last caught
      result |-> "none",      \* none | id | error
      thrown |-> {},          \* the message of the error sendMessage threw
      log |-> <<>>,           \* history: how each attempt ended
      rawSends |-> 0,         \* history: calls of client.sendMessage
      reloads |-> 0,          \* history: calls of client.pupPage.reload
      inits |-> 0 ]           \* history: calls of client.initialize

\* the adapter outside sendMessage: events and other callers change what the client
\* object shows
AdapterChange ==
    /\ client.exists
    /\ \E i \in BOOLEAN, st \in RawStates, pg \in {"open", "closed"} :
          /\ client' = [client EXCEPT !.info = i, !.state = st, !.page = pg]
          /\ client' # client
    /\ UNCHANGED <<snd, pending>>
    /\ UNCHANGED otpVars
    /\ UNCHANGED lifeVars
    /\ UNCHANGED cf

\* a caller calls sendMessage(number, message)
SendCall(number, message) ==
    /\ snd.pc \in {"idle", "done"}
    /\ pending = 0
    /\ snd' = [NoSend EXCEPT !.pc = "attempt", !.number = number, !.message = message]
    /\ UNCHANGED <<client, pending>>
    /\ UNCHANGED otpVars
    /\ UNCHANGED lifeVars
    /\ UNCHANGED cf

\* a catch block that rethrows whatever it caught
CaughtNoRetry(c, msg, how) ==
    [c EXCEPT !.retryCount = @ + 1, !.err = msg, !.log = Append(@, how),
              !.pc = "done", !.result = "error", !.thrown = msg]

\* a catch block whose recovery branch does not look at the retry budget
CaughtKeepsRecovering(c, msg, how) ==
    LET n == c.retryCount + 1
        d == [c EXCEPT !.retryCount = n, !.err = msg, !.log = Append(@, how)]
    IN  IF IsTransient(msg)
        THEN [d EXCEPT !.pc = "recover"]
        ELSE IF n >= maxRetries
        THEN [d EXCEPT !.pc = "done", !.result = "error", !.thrown = Exhausted(msg)]
        ELSE IF IsNonRetryable(msg)
        THEN [d EXCEPT !.pc = "done", !.result = "error", !.thrown = msg]
        ELSE [d EXCEPT !.pc = "backoff"]

\* a catch block that tries to recover after every error it will retry
CaughtRecoversOnAnyError(c, msg, how) ==
    LET n == c.retryCount + 1
        d == [c EXCEPT !.retryCount = n, !.err = msg, !.log = Append(@, how)]
    IN  IF n >= maxRetries
        THEN [d EXCEPT !.pc = "done", !.result = "error", !.thrown = Exhausted(msg)]
        ELSE IF IsNonRetryable(msg)
        THEN [d EXCEPT !.pc = "done", !.result = "error", !.thrown = msg]
        ELSE [d EXCEPT !.pc = "recover"]

\* lines 518-576, the catch block up to its next await, after attempt outcome `how`
\* threw an error with message msg
Caught(c, msg, how) ==
    LET n == c.retryCount + 1
        d == [c EXCEPT !.retryCount = n, !.err = msg, !.log = Append(@, how)]
    IN  IF IsTransient(msg) /\ n < maxRetries
        THEN [d EXCEPT !.pc = "recover"]
        ELSE IF n >= maxRetries
        THEN [d EXCEPT !.pc = "done", !.result = "error", !.thrown = Exhausted(msg)]
        ELSE IF IsNonRetryable(msg)
        THEN [d EXCEPT !.pc = "done", !.result = "error", !.thrown = msg]
        ELSE [d EXCEPT !.pc = "backoff"]

\* lines 475-509 once the state has been read into currentState: the readiness test,
\* the validations, the chat id and the call of client.sendMessage
Proceed(c, currentState) ==
    IF ~ClientReady(currentState)
    THEN Caught(c, NotReadyMsg, "notReady")
    ELSE IF c.number = <<>>
    THEN Caught(c, InvalidNumberMsg, "invalidNumber")
    ELSE IF Trim(c.message) = <<>>
    THEN Caught(c, InvalidContentMsg, "invalidContent")
    ELSE [c EXCEPT !.pc = "sending", !.chatId = ChatId(c.number), !.rawSends = @ + 1]

\* the loop head: lines 462-473.  A null client makes client.state throw, and the
\* catch block throws again on the same read (line 526)
SendAttempt ==
    /\ snd.pc = "attempt"
    /\ snd' = IF ~client.exists
              THEN [snd EXCEPT !.pc = "done", !.result = "error", !.thrown = TypeErrorMsg,
                               !.retryCount = @ + 1, !.log = Append(@, "typeError")]
              ELSE IF ~ClientReady(client.state)
              THEN [snd EXCEPT !.pc = "getState", !.currentState = client.state]
              ELSE Proceed(snd, client.state)
    /\ pending' = IF snd'.pc = "sending" THEN pending + 1 ELSE pending
    /\ UNCHANGED client
    /\ UNCHANGED otpVars
    /\ UNCHANGED lifeVars
    /\ UNCHANGED cf

\* await client.getState() has settled (lines 468-472): client.state is read again if
\* it resolved, and the old reading stands if it rejected
SendGetState(resolved) ==
    /\ snd.pc = "getState"
    /\ snd' = Proceed([snd EXCEPT !.currentState = "undefined"],
                      IF resolved THEN client.state ELSE snd.currentState)
    /\ pending' = IF snd'.pc = "sending" THEN pending + 1 ELSE pending
    /\ UNCHANGED client
    /\ UNCHANGED otpVars
    /\ UNCHANGED lifeVars
    /\ UNCHANGED cf

\* the raw send resolves with a message that has an id
RawSendOk ==
    /\ snd.pc = "sending"
    /\ snd' = [snd EXCEPT !.pc = "done", !.result = "id", !.log = Append(@, "ok")]
    /\ pending' = pending - 1
    /\ UNCHANGED client
    /\ UNCHANGED otpVars
    /\ UNCHANGED lifeVars
    /\ UNCHANGED cf

\* the raw send resolves without a message id (lines 511-513)
RawSendNoId ==
    /\ snd.pc = "sending"
    /\ snd' = Caught(snd, NoConfirmationMsg, "noConfirmation")
    /\ pending' = pending - 1
    /\ UNCHANGED client
    /\ UNCHANGED otpVars
    /\ UNCHANGED lifeVars
    /\ UNCHANGED cf

\* the raw send rejects
RawSendFails(msg) ==
    /\ snd.pc = "sending"
    /\ snd' = Caught(snd, msg, IF IsTransient(msg) THEN "transient" ELSE "rejected")
    /\ pending' = pending - 1
    /\ UNCHANGED client
    /\ UNCHANGED otpVars
    /\ UNCHANGED lifeVars
    /\ UNCHANGED cf

\* the 15 s timer wins the race (lines 506-508); the raw send stays in flight
RawSendTimeout ==
    /\ snd.pc = "sending"
    /\ snd' = Caught(snd, TimeoutMsg, "timeout")
    /\ UNCHANGED <<client, pending>>
    /\ UNCHANGED otpVars
    /\ UNCHANGED lifeVars
    /\ UNCHANGED cf

\* a raw send abandoned by the timer settles
LateSettle ==
    /\ pending > 0
    /\ snd.pc # "sending" \/ pending > 1
    /\ pending' = pending - 1
    /\ UNCHANGED <<client, snd>>
    /\ UNCHANGED otpVars
    /\ UNCHANGED lifeVars
    /\ UNCHANGED cf

\* after the 5 s x retryCount wait (line 539): reload the page if there is an open
\* one (lines 543-546), else go round again
SendRecover ==
    /\ snd.pc = "recover"
    /\ snd' = IF client.page = "open"
              THEN [snd EXCEPT !.pc = "reload", !.reloads = @ + 1]
              ELSE [snd EXCEPT !.pc = "attempt"]
    /\ UNCHANGED <<client, pending>>
    /\ UNCHANGED otpVars
    /\ UNCHANGED lifeVars
    /\ UNCHANGED cf

\* the reload resolves; after 8 s the loop goes round
ReloadOk ==
    /\ snd.pc = "reload"
    /\ snd' = [snd EXCEPT !.pc = "attempt"]
    /\ UNCHANGED <<client, pending>>
    /\ UNCHANGED otpVars
    /\ UNCHANGED lifeVars
    /\ UNCHANGED cf

\* the reload rejects (lines 547-551): client.initialize() is called
ReloadFails ==
    /\ snd.pc = "reload"
    /\ snd' = [snd EXCEPT !.pc = "reinit", !.inits = @ + 1]
    /\ UNCHANGED <<client, pending>>
    /\ UNCHANGED otpVars
    /\ UNCHANGED lifeVars
    /\ UNCHANGED cf

\* client.initialize() settles either way (lines 551-555); the loop goes round
ReinitSettles ==
    /\ snd.pc = "reinit"
    /\ snd' = [snd EXCEPT !.pc = "attempt"]
    /\ UNCHANGED <<client, pending>>
    /\ UNCHANGED otpVars
    /\ UNCHANGED lifeVars
    /\ UNCHANGED cf

\* after the 2 s x retryCount wait (line 575) the loop goes round
SendBackoff ==
    /\ snd.pc = "backoff"
    /\ snd' = [snd EXCEPT !.pc = "attempt"]
    /\ UNCHANGED <<client, pending>>
    /\ UNCHANGED otpVars
    /\ UNCHANGED lifeVars
    /\ UNCHANGED cf

(***************************************************************************)
(* The client's lifecycle (whatsappClient.js lines 308-453 and 580-711):   *)
(* the event handlers, ensureReady, restartClient and generateQRCode.      *)
(* client.destroy() and client.initialize() are in flight while their      *)
(* caller stands at "destroying" or "initializing".  The browser page is   *)
(* open from a call of initialize until a destroy has resolved.            *)
(***************************************************************************)
\* how far Date.now() - start has got in a run of ensureReady:
\* 0 = at most maxWaitMs / 2, 1 = more than that and less than maxWaitMs, 2 = maxWaitMs or more
Phases == {0, 1, 2}

\* a watchdog slot with no timer set and no run of ensureReady
NoWd == [pc |-> "idle", reloaded |-> FALSE, phase |-> 0, state |-> "undefined",
         tried |-> FALSE]    \* history: this run has called client.pupPage.reload

\* lines 655-664: the loop head of ensureReady up to the call of client.getState()
LoopTop(w) ==
    IF readyReceived \/ client.info
    THEN NoWd
    ELSE [w EXCEPT !.pc = "getState", !.state = client.state]

\* lines 665-692 once getState has settled, up to the next await (the reload or the
\* 5 s sleep); ph is the elapsed time by now
AfterGetState(w, resolved, ph) ==
    LET st == IF resolved /\ client.state # "undefined" THEN client.state ELSE w.state
        on == [w EXCEPT !.phase = ph, !.state = "undefined"]
    IN  IF st = "CONNECTED"
        THEN NoWd
        ELSE IF ~w.reloaded /\ ph >= 1
        THEN IF readyReceived \/ client.info
             THEN NoWd
             ELSE IF client.page = "open"
             THEN [on EXCEPT !.pc = "reload", !.tried = TRUE]
             ELSE [on EXCEPT !.pc = "sleep", !.reloaded = TRUE]
        ELSE [on EXCEPT !.pc = "sleep"]

\* lines 696-703: the double check and the call of client.destroy()
LastResort(w) ==
    IF readyReceived \/ client.info \/ client.state = "CONNECTED"
    THEN NoWd
    ELSE [w EXCEPT !.pc = "destroying", !.phase = 2]

\* the 30 s timer of the 'authenticated' handler fires (lines 387-399)
WdTimerFires(i) ==
    /\ wd[i].pc = "timer"
    /\ wd' = [wd EXCEPT ![i] = IF ~client.info /\ ~readyReceived THEN LoopTop(NoWd) ELSE NoWd]
    /\ UNCHANGED <<readyReceived, boot, authDue, restart, qr, hist>>
    /\ UNCHANGED <<otpVars, sendVars>>
    /\ UNCHANGED cf

\* await client.getState() of ensureReady settles
WdGetState(i, resolved, ph) ==
    /\ wd[i].pc = "getState"
    /\ ph >= wd[i].phase
    /\ wd' = [wd EXCEPT ![i] = AfterGetState(wd[i], resolved, ph)]
    /\ UNCHANGED <<readyReceived, boot, authDue, restart, qr, hist>>
    /\ UNCHANGED <<otpVars, sendVars>>
    /\ UNCHANGED cf

\* client.pupPage.reload of ensureReady settles (lines 683-689)
WdReloadSettles(i, ok) ==
    /\ wd[i].pc = "reload"
    /\ wd' = [wd EXCEPT ![i].pc = "sleep", ![i].reloaded = ok]
    /\ UNCHANGED <<readyReceived, boot, authDue, restart, qr, hist>>
    /\ UNCHANGED <<otpVars, sendVars>>
    /\ UNCHANGED cf

\* the 5 s sleep is over and the time is not up: the loop goes round
WdSleepDone(i, ph) ==
    /\ wd[i].pc = "sleep"
    /\ ph >= wd[i].phase
    /\ ph < 2
    /\ wd' = [wd EXCEPT ![i] = LoopTop([wd[i] EXCEPT !.phase = ph])]
    /\ UNCHANGED <<readyReceived, boot, authDue, restart, qr, hist>>
    /\ UNCHANGED <<otpVars, sendVars>>
    /\ UNCHANGED cf

\* the 5 s sleep is over and the time is up (it was past the half before the sleep):
\* the last resort
WdTimeUp(i) ==
    /\ wd[i].pc = "sleep"
    /\ wd[i].phase >= 1
    /\ wd' = [wd EXCEPT ![i] = LastResort(wd[i])]
    /\ IF wd'[i].pc = "destroying"
       THEN /\ hist.reinits < MaxReinits
            /\ hist' = [hist EXCEPT !.reinits = @ + 1]
       ELSE UNCHANGED hist
    /\ UNCHANGED <<readyReceived, boot, authDue, restart, qr>>
    /\ UNCHANGED <<otpVars, sendVars>>
    /\ UNCHANGED cf

\* client.destroy() of ensureReady settles: resolved, the 2 s wait begins; rejected,
\* the catch block ends the run
WdDestroySettles(i, ok) ==
    /\ wd[i].pc = "destroying"
    /\ wd' = [wd EXCEPT ![i] = IF ok THEN [wd[i] EXCEPT !.pc = "wait"] ELSE NoWd]
    /\ client' = IF ok THEN [client EXCEPT !.page = "closed"] ELSE client
    /\ UNCHANGED <<readyReceived, boot, authDue, restart, qr, hist>>
    /\ UNCHANGED <<otpVars, snd, pending>>
    /\ UNCHANGED cf

\* line 705: client.initialize() is called
WdWaitDone(i) ==
    /\ wd[i].pc = "wait"
    /\ wd' = [wd EXCEPT ![i].pc = "initializing"]
    /\ client' = [client EXCEPT !.page = "open"]
    /\ authDue' = TRUE
    /\ UNCHANGED <<readyReceived, boot, restart, qr, hist>>
    /\ UNCHANGED <<otpVars, snd, pending>>
    /\ UNCHANGED cf

\* client.initialize() of ensureReady settles either way
WdInitSettles(i) ==
    /\ wd[i].pc = "initializing"
    /\ wd' = [wd EXCEPT ![i] = NoWd]
    /\ UNCHANGED <<readyReceived, boot, authDue, restart, qr, hist>>
    /\ UNCHANGED <<otpVars, sendVars>>
    /\ UNCHANGED cf

\* the watchdog slots
WdSlots == 1..MaxWatchdogs

\* client.on('authenticated'): the 30 s timer is set (lines 377-400)
EvAuthenticated ==
    /\ authDue
    /\ \E i \in WdSlots :
          /\ wd[i].pc = "idle"
          /\ \A j \in WdSlots : j < i => wd[j].pc # "idle"
          /\ wd' = [wd EXCEPT ![i].pc = "timer"]
    /\ authDue' = FALSE
    /\ UNCHANGED <<readyReceived, boot, restart, qr, hist>>
    /\ UNCHANGED <<otpVars, sendVars>>
    /\ UNCHANGED cf

\* client.on('ready') (lines 363-375); the library has set client.info
EvReady ==
    /\ client.exists /\ client.page = "open"
    /\ ~(readyReceived /\ client.info)
    /\ readyReceived' = TRUE
    /\ client' = [client EXCEPT !.info = TRUE]
    /\ hist' = [hist EXCEPT !.everReady = TRUE]
    /\ UNCHANGED <<boot, authDue, restart, qr, wd>>
    /\ UNCHANGED <<otpVars, snd, pending>>
    /\ UNCHANGED cf

\* client.on('disconnected') (lines 441-445)
EvDisconnected ==
    /\ readyReceived
    /\ readyReceived' = FALSE
    /\ UNCHANGED <<boot, authDue, restart, qr, wd, hist>>
    /\ UNCHANGED <<otpVars, sendVars>>
    /\ UNCHANGED cf

\* the adapter changes client.state
EvState(st) ==
    /\ client.exists /\ client.state # st
    /\ client' = [client EXCEPT !.state = st]
    /\ hist' = [hist EXCEPT !.everReady = @ \/ st = "CONNECTED"]
    /\ UNCHANGED <<readyReceived, boot, authDue, restart, qr, wd>>
    /\ UNCHANGED <<otpVars, snd, pending>>
    /\ UNCHANGED cf

\* the client.initialize() of line 448 settles (a rejection is logged)
BootInitSettles ==
    /\ boot = "initializing"
    /\ boot' = "settled"
    /\ UNCHANGED <<readyReceived, authDue, restart, qr, wd, hist>>
    /\ UNCHANGED <<otpVars, sendVars>>
    /\ UNCHANGED cf

\* getClientStatus (lines 580-596)
GetClientStatus ==
    IF ~client.exists
    THEN [isReady |-> FALSE, state |-> "NOT_INITIALIZED", info |-> FALSE]
    ELSE [isReady |-> client.info \/ client.state = "CONNECTED",
          state |-> IF client.state = "undefined" THEN "UNKNOWN" ELSE client.state,
          info |-> client.info]

\* the callers of restartClient (POST /restart)
Callers == {"r1", "r2"}

\* no call of restartClient or generateQRCode is running
NoCall ==
    [ pc |-> "idle",
      res |-> "none",         \* none | ok | error
      joined |-> FALSE,       \* history: it began while another restart was between its destroy and its connect
      destroyed |-> FALSE,    \* history: it called client.destroy()
      inited |-> FALSE ]      \* history: it called client.initialize()

\* another call of restartClient has called destroy and not yet initialize
RestartUnderWay(r) == \E q \in Callers \ {r} : restart[q].pc \in {"destroying", "waiting"}

\* restartClient is called (lines 617-628): destroy unless the state is UNPAIRED, then
\* the 3 s wait
RestartCall(r) ==
    /\ restart[r].pc = "idle"
    /\ restart' = [restart EXCEPT ![r] =
                     IF client.exists /\ client.state # "UNPAIRED"
                     THEN [NoCall EXCEPT !.pc = "destroying", !.destroyed = TRUE,
                                         !.joined = RestartUnderWay(r)]
                     ELSE [NoCall EXCEPT !.pc = "waiting", !.joined = RestartUnderWay(r)]]
    /\ UNCHANGED <<readyReceived, boot, authDue, qr, wd, hist>>
    /\ UNCHANGED <<otpVars, sendVars>>
    /\ UNCHANGED cf

\* client.destroy() of restartClient settles: resolved, the 3 s wait begins; rejected,
\* the catch block rethrows and the route answers 500
RestartDestroySettles(r, ok) ==
    /\ restart[r].pc = "destroying"
    /\ restart' = [restart EXCEPT ![r].pc = IF ok THEN "waiting" ELSE "done",
                                  ![r].res = IF ok THEN "none" ELSE "error"]
    /\ client' = IF ok THEN [client EXCEPT !.page = "closed"] ELSE client
    /\ UNCHANGED <<readyReceived, boot, authDue, qr, wd, hist>>
    /\ UNCHANGED <<otpVars, snd, pending>>
    /\ UNCHANGED cf

\* line 631: client.initialize() is called (a TypeError when there is no client)
RestartWaitDone(r) ==
    /\ restart[r].pc = "waiting"
    /\ IF client.exists
       THEN /\ restart' = [restart EXCEPT ![r].pc = "initializing", ![r].inited = TRUE]
            /\ client' = [client EXCEPT !.page = "open"]
            /\ authDue' = TRUE
       ELSE /\ restart' = [restart EXCEPT ![r].pc = "done", ![r].res = "error"]
            /\ UNCHANGED <<client, authDue>>
    /\ UNCHANGED <<readyReceived, boot, qr, wd, hist>>
    /\ UNCHANGED <<otpVars, snd, pending>>
    /\ UNCHANGED cf

\* client.initialize() of restartClient settles; the route answers 200 or 500
RestartInitSettles(r, ok) ==
    /\ restart[r].pc = "initializing"
    /\ restart' = [restart EXCEPT ![r].pc = "done", ![r].res = IF ok THEN "ok" ELSE "error"]
    /\ UNCHANGED <<readyReceived, boot, authDue, qr, wd, hist>>
    /\ UNCHANGED <<otpVars, sendVars>>
    /\ UNCHANGED cf

\* the response is out
RestartReset(r) ==
    /\ restart[r].pc = "done"
    /\ restart' = [restart EXCEPT ![r] = NoCall]
    /\ UNCHANGED <<readyReceived, boot, authDue, qr, wd, hist>>
    /\ UNCHANGED <<otpVars, sendVars>>
    /\ UNCHANGED cf

\* generateQRCode is called (lines 598-606); without a client object the read of
\* client.info throws a TypeError
QrCall ==
    /\ qr.pc = "idle"
    /\ IF ~client.exists
       THEN /\ qr' = [NoCall EXCEPT !.pc = "done", !.res = "error"]
            /\ UNCHANGED <<client, authDue>>
       ELSE IF client.info
       THEN /\ qr' = [NoCall EXCEPT !.pc = "done", !.res = "ok"]
            /\ UNCHANGED <<client, authDue>>
       ELSE IF client.state \in {"CONNECTED", "OPENING"}
       THEN /\ qr' = [NoCall EXCEPT !.pc = "destroying", !.destroyed = TRUE]
            /\ UNCHANGED <<client, authDue>>
       ELSE /\ qr' = [NoCall EXCEPT !.pc = "initializing", !.inited = TRUE]
            /\ client' = [client EXCEPT !.page = "open"]
            /\ authDue' = TRUE
    /\ UNCHANGED <<readyReceived, boot, restart, wd, hist>>
    /\ UNCHANGED <<otpVars, snd, pending>>
    /\ UNCHANGED cf

\* client.destroy() of generateQRCode settles: resolved, the 2 s wait begins; rejected,
\* the error is rethrown
QrDestroySettles(ok) ==
    /\ qr.pc = "destroying"
    /\ qr' = [qr EXCEPT !.pc = IF ok THEN "waiting" ELSE "done",
                        !.res = IF ok THEN "none" ELSE "error"]
    /\ client' = IF ok THEN [client EXCEPT !.page = "closed"] ELSE client
    /\ UNCHANGED <<readyReceived, boot, authDue, restart, wd, hist>>
    /\ UNCHANGED <<otpVars, snd, pending>>
    /\ UNCHANGED cf

\* line 606 after the wait: client.initialize() is called
QrWaitDone ==
    /\ qr.pc = "waiting"
    /\ qr' = [qr EXCEPT !.pc = "initializing", !.inited = TRUE]
    /\ client' = [client EXCEPT !.page = "open"]
    /\ authDue' = TRUE
    /\ UNCHANGED <<readyReceived, boot, restart, wd, hist>>
    /\ UNCHANGED <<otpVars, snd, pending>>
    /\ UNCHANGED cf

\* client.initialize() of generateQRCode settles
QrInitSettles(ok) ==
    /\ qr.pc = "initializing"
    /\ qr' = [qr EXCEPT !.pc = "done", !.res = IF ok THEN "ok" ELSE "error"]
    /\ UNCHANGED <<readyReceived, boot, authDue, restart, wd, hist>>
    /\ UNCHANGED <<otpVars, sendVars>>
    /\ UNCHANGED cf

\* the response is out
QrReset ==
    /\ qr.pc = "done"
    /\ qr' = NoCall
    /\ UNCHANGED <<readyReceived, boot, authDue, restart, wd, hist>>
    /\ UNCHANGED <<otpVars, sendVars>>
    /\ UNCHANGED cf

\* the lifecycle at rest: no call running, no watchdog, the startup initialize settled
LifeAtRest(ready) ==
    /\ readyReceived = ready
    /\ boot = "settled"
    /\ authDue = FALSE
    /\ restart = [r \in Callers |-> NoCall]
    /\ qr = NoCall
    /\ wd = [i \in WdSlots |-> NoWd]
    /\ hist = [reinits |-> 0, everReady |-> ready, again |-> FALSE,
               made |-> IF client.exists THEN 1 ELSE 0,
               connects |-> IF client.exists THEN 1 ELSE 0]

\* initializeWhatsAppClient has returned (lines 314-453): the client is made, the
\* background ensureReady(120000) awaits its first getState, and initialize is in flight
InitClientStarted ==
    /\ InitOtp
    /\ snd = NoSend
    /\ pending = 0
    /\ client = [exists |-> TRUE, info |-> FALSE, state |-> "undefined", page |-> "open"]
    /\ readyReceived = FALSE
    /\ boot = "initializing"
    /\ authDue = TRUE
    /\ restart = [r \in Callers |-> NoCall]
    /\ qr = NoCall
    /\ wd = [i \in WdSlots |-> IF i = 1 THEN [NoWd EXCEPT !.pc = "getState"] ELSE NoWd]
    /\ hist = [reinits |-> 0, everReady |-> FALSE, again |-> FALSE,
               made |-> 1, connects |-> 1]

\* the server listens and initializeWhatsAppClient has not been called (index.js
\* lines 32-43: it is called once MongoDB has connected, and never without MONGODB_URI)
InitNoClient ==
    /\ InitOtp
    /\ snd = NoSend
    /\ pending = 0
    /\ client = [exists |-> FALSE, info |-> FALSE, state |-> "undefined", page |-> "closed"]
    /\ LifeAtRest(FALSE)

\* an initializer without the guard of lines 315-318
InitializeUnguarded ==
    /\ wd[1].pc = "idle"
    /\ client' = [exists |-> TRUE, info |-> FALSE, state |-> "undefined", page |-> "open"]
    /\ boot' = "initializing"
    /\ authDue' = TRUE
    /\ wd' = [wd EXCEPT ![1] = LoopTop(NoWd)]
    /\ hist' = [hist EXCEPT !.again = client.exists, !.made = @ + 1, !.connects = @ + 1]
    /\ UNCHANGED <<readyReceived, restart, qr>>
    /\ UNCHANGED <<otpVars, snd, pending>>
    /\ UNCHANGED cf

\* initializeWhatsAppClient is called (lines 314-453).  With a client it returns it;
\* without one it makes the client, registers the handlers, starts the background
\* ensureReady(120000) and calls client.initialize()
InitializeWhatsAppClient ==
    /\ IF client.exists
       THEN /\ hist' = [hist EXCEPT !.again = TRUE]
            /\ UNCHANGED <<client, boot, authDue, wd>>
       ELSE /\ client' = [exists |-> TRUE, info |-> FALSE, state |-> "undefined",
                          page |-> "open"]
            /\ boot' = "initializing"
            /\ authDue' = TRUE
            /\ wd' = [wd EXCEPT ![1] = LoopTop(NoWd)]
            /\ hist' = [hist EXCEPT !.made = @ + 1, !.connects = @ + 1]
    /\ UNCHANGED <<readyReceived, restart, qr>>
    /\ UNCHANGED <<otpVars, snd, pending>>
    /\ UNCHANGED cf

\* the adapter's events and the startup initialize
Events ==
    \/ EvAuthenticated
    \/ EvReady
    \/ EvDisconnected
    \/ \E st \in RawStates : EvState(st)
    \/ BootInitSettles

\* the watchdogs
Watchdog(i) ==
    \/ WdTimerFires(i)
    \/ \E resolved \in BOOLEAN, ph \in Phases : WdGetState(i, resolved, ph)
    \/ \E ok \in BOOLEAN : WdReloadSettles(i, ok)
    \/ \E ph \in Phases : WdSleepDone(i, ph)
    \/ WdTimeUp(i)
    \/ \E ok \in BOOLEAN : WdDestroySettles(i, ok)
    \/ WdWaitDone(i)
    \/ WdInitSettles(i)

\* POST /restart and POST /generate-qr
Operator ==
    \/ \E r \in Callers : RestartCall(r)
    \/ \E r \in Callers, ok \in BOOLEAN : RestartDestroySettles(r, ok)
    \/ \E r \in Callers : RestartWaitDone(r)
    \/ \E r \in Callers, ok \in BOOLEAN : RestartInitSettles(r, ok)
    \/ \E r \in Callers : RestartReset(r)
    \/ QrCall
    \/ \E ok \in BOOLEAN : QrDestroySettles(ok)
    \/ QrWaitDone
    \/ \E ok \in BOOLEAN : QrInitSettles(ok)
    \/ QrReset

\* the watchdogs and the adapter's events after startup
NextWatchdog ==
    \/ Events
    \/ \E i \in WdSlots : Watchdog(i)

SpecWatchdog == InitClientStarted /\ [][NextWatchdog]_vars

\* the server from before the first call of initializeWhatsAppClient: the calls, the
\* adapter's events and the watchdog of the first slot (the background ensureReady
\* the initializer starts); 30 s timers set in other slots have not fired yet
NextBoot ==
    \/ InitializeWhatsAppClient
    \/ Events
    \/ Watchdog(1)

SpecBoot == InitNoClient /\ [][NextBoot]_vars

\* the operator's calls and the adapter's events after startup, while no run of
\* ensureReady takes a step
NextRestart ==
    \/ Events
    \/ \E i \in WdSlots : WdTimerFires(i)
    \/ Operator

InitRestart == InitClientStarted \/ InitNoClient

SpecRestart == InitRestart /\ [][NextRestart]_vars

(***************************************************************************)
(* The contact form (src/controllers/messageController.js)                 *)
(***************************************************************************)
\* the errors a call of sendMessage ends with: not ready on all three attempts, a
\* phone that is not a string, three timeouts, a rejected raw send
SendThrows ==
    { Exhausted(NotReadyMsg), InvalidNumberMsg, Exhausted(TimeoutMsg),
      {"not authenticated"}, Exhausted({"Target closed"}), Exhausted(NoConfirmationMsg) }

\* how a call of sendMessage ends: a message id, or one of the errors
SendResults ==
    {[id |-> "id", err |-> {}]} \cup {[id |-> "", err |-> m] : m \in SendThrows}

\* line 76
BothFailedMsg == {"Failed to send messages to both customer and admin"}

\* lines 128-140: the status code chosen from the message of the caught error
ErrorStatus(msg) ==
    IF "not authenticated" \in msg \/ "not ready" \in msg THEN 503
    ELSE IF "Invalid phone number" \in msg THEN 400
    ELSE IF "timeout" \in msg THEN 504
    ELSE 500

\* lines 20-58: the validations, the readiness check, and the call of the customer send
ContactCall(fieldsPresent, adminNumberSet) ==
    /\ cf.pc = "idle"
    /\ cf' = IF ~fieldsPresent THEN [NoForm EXCEPT !.pc = "done", !.status = 400]
             ELSE IF ~adminNumberSet THEN [NoForm EXCEPT !.pc = "done", !.status = 500]
             ELSE IF ~GetClientStatus.isReady THEN [NoForm EXCEPT !.pc = "done", !.status = 503]
             ELSE [NoForm EXCEPT !.pc = "customer"]
    /\ UNCHANGED <<otpVars, sendVars, lifeVars>>

\* a handler that gives up when the customer send fails
ContactCustomerFailureEnds(r) ==
    /\ cf.pc = "customer"
    /\ cf' = IF r.id = ""
             THEN [cf EXCEPT !.pc = "done", !.customerErr = r.err, !.caught = r.err,
                             !.status = ErrorStatus(r.err)]
             ELSE [cf EXCEPT !.pc = "admin", !.customerMsgId = r.id]
    /\ UNCHANGED <<otpVars, sendVars, lifeVars>>

\* lines 59-69: the customer send settles (its error is only logged), the admin send
\* is called
ContactCustomerSettles(r) ==
    /\ cf.pc = "customer"
    /\ cf' = [cf EXCEPT !.pc = "admin", !.customerMsgId = r.id, !.customerErr = r.err]
    /\ UNCHANGED <<otpVars, sendVars, lifeVars>>

\* lines 70-141: the admin send settles.  When both sends failed the new error of
\* line 76 goes to the outer catch block, which answers by its message; else
\* Submission.create is called
ContactAdminSettles(r) ==
    /\ cf.pc = "admin"
    /\ r.err # InvalidNumberMsg
    /\ cf' = IF r.id = "" /\ cf.customerMsgId = ""
             THEN [cf EXCEPT !.pc = "done", !.adminErr = r.err, !.caught = BothFailedMsg,
                             !.status = ErrorStatus(BothFailedMsg)]
             ELSE [cf EXCEPT !.pc = "save", !.adminMsgId = r.id, !.adminErr = r.err]
    /\ UNCHANGED <<otpVars, sendVars, lifeVars>>

\* lines 85-117: Submission.create settles (a failure is only logged), 200
ContactSaveSettles(ok) ==
    /\ cf.pc = "save"
    /\ cf' = [cf EXCEPT !.pc = "done", !.saved = ok, !.status = 200,
                        !.customerMessageSent = cf.customerMsgId # "",
                        !.adminMessageSent = cf.adminMsgId # ""]
    /\ UNCHANGED <<otpVars, sendVars, lifeVars>>

\* the response is out
ContactReset ==
    /\ cf.pc = "done"
    /\ cf' = NoForm
    /\ UNCHANGED <<otpVars, sendVars, lifeVars>>

\* no client before initializeWhatsAppClient, then a client that is not ready
InitClient ==
    \E e \in BOOLEAN :
        client = [exists |-> e, info |-> FALSE, state |-> "undefined", page |-> "closed"]

InitSend ==
    /\ InitOtp
    /\ InitClient
    /\ snd = NoSend
    /\ pending = 0
    /\ LifeAtRest(FALSE)

NextSend ==
    \/ AdapterChange
    \/ \E number \in SendNumbers, message \in SendBodies : SendCall(number, message)
    \/ SendAttempt
    \/ \E resolved \in BOOLEAN : SendGetState(resolved)
    \/ RawSendOk
    \/ RawSendNoId
    \/ \E msg \in AdapterErrors : RawSendFails(msg)
    \/ RawSendTimeout
    \/ LateSettle
    \/ SendRecover
    \/ ReloadOk
    \/ ReloadFails
    \/ ReinitSettles
    \/ SendBackoff

SpecSend == InitSend /\ [][NextSend]_vars

NextContact ==
    \/ AdapterChange
    \/ \E fieldsPresent \in BOOLEAN, adminNumberSet \in BOOLEAN :
          ContactCall(fieldsPresent, adminNumberSet)
    \/ \E r \in SendResults : ContactCustomerSettles(r)
    \/ \E r \in SendResults : ContactAdminSettles(r)
    \/ \E ok \in BOOLEAN : ContactSaveSettles(ok)
    \/ ContactReset

SpecContact == InitSend /\ [][NextContact]_vars

\* the steps of a running call of sendMessage: each is the settling of a promise the
\* call awaits (a timer, the race of the raw send with its 15 s timer, getState,
\* reload with its 30 s timeout, initialize)
SendStep ==
    \/ SendAttempt
    \/ \E resolved \in BOOLEAN : SendGetState(resolved)
    \/ RawSendOk
    \/ RawSendNoId
    \/ \E msg \in AdapterErrors : RawSendFails(msg)
    \/ RawSendTimeout
    \/ SendRecover
    \/ ReloadOk
    \/ ReloadFails
    \/ ReinitSettles
    \/ SendBackoff

\* sendMessage where every promise it awaits settles
SpecSendFair == SpecSend /\ WF_vars(SendStep)

(***************************************************************************)
(* The specifications of the OTP routes                                    *)
(***************************************************************************)
Uuids == 1..MaxTokens

Init ==
    /\ InitOtp
    /\ client = [exists |-> TRUE, info |-> TRUE, state |-> "CONNECTED", page |-> "open"]
    /\ snd = NoSend
    /\ pending = 0
    /\ LifeAtRest(TRUE)

\* one step of handler p, its request drawn from the given inputs; count says
\* whether the history of wrong guesses is kept
Handler(p, sendInputs, verifyInputs, codes, count) ==
    \/ \E input \in sendInputs : IssueRejected(p, input)
    \/ \E input \in sendInputs : IssueFind(p, input)
    \/ IssueAbortCooldown(p)
    \/ \E otp \in codes : IssueDeleteMany(p, otp)
    \/ IssueSaveCommit(p)
    \/ \E outcome \in SendOutcomes : IssueSendDone(p, outcome)
    \/ IssueAbortError(p)
    \/ VerifyMissing(p)
    \/ \E uuid \in Uuids, input \in verifyInputs, otp \in Codes :
          VerifyFind(p, uuid, input, otp, count)
    \/ VerifyAbortInvalid(p)
    \/ VerifyAbortMismatch(p)
    \/ VerifyDeleteCommit(p)
    \/ \E outcome \in SendOutcomes : VerifyConfirm(p, outcome)
    \/ VerifyAbortError(p)
    \/ \E uuid \in Uuids : StatusFind(p, uuid)
    \/ StatusDelete(p)
    \/ Reset(p)

\* the inputs of the concurrent specification: one number, one code drawn
ConcSendInputs == {NumA, <<"1", "2">>}
ConcVerifyInputs == {NumA}
ConcCodes == {"123456"}

Next ==
    \/ Tick
    \/ TtlExpire
    \/ \E p \in Procs : Handler(p, ConcSendInputs, ConcVerifyInputs, ConcCodes, FALSE)

Spec == Init /\ [][Next]_vars

\* one request at a time: no transaction ever meets another's lock
Sequential(p, sendInputs, verifyInputs, codes, count) ==
    \/ \E input \in sendInputs : IssueRejected(p, input)
    \/ \E input \in sendInputs : IssueFind(p, input)
    \/ IssueAbortCooldown(p)
    \/ \E otp \in codes : IssueDeleteMany(p, otp)
    \/ IssueSaveCommit(p)
    \/ \E outcome \in SendOutcomes : IssueSendDone(p, outcome)
    \/ IssueAbortError(p)
    \/ VerifyMissing(p)
    \/ \E uuid \in Uuids, input \in verifyInputs, otp \in Codes :
          VerifyFind(p, uuid, input, otp, count)
    \/ VerifyAbortInvalid(p)
    \/ VerifyAbortMismatch(p)
    \/ VerifyDeleteCommit(p)
    \/ \E outcome \in SendOutcomes : VerifyConfirm(p, outcome)
    \/ \E uuid \in Uuids : StatusFind(p, uuid)
    \/ StatusDelete(p)
    \/ Reset(p)

NextSeq ==
    \/ Tick
    \/ TtlExpire
    \/ Sequential("h1", SendInputs, VerifyInputs, Codes, FALSE)

SpecSeq == Init /\ [][NextSeq]_vars

NextGuess ==
    \/ Tick
    \/ TtlExpire
    \/ Sequential("h1", ConcSendInputs, ConcVerifyInputs, ConcCodes, TRUE)

SpecGuess == Init /\ [][NextGuess]_vars

(***************************************************************************)
(* The claims                                                              *)
(***************************************************************************)
\* handler p has just run the findOneAndUpdate of a verify call
VerifyFindStep(p) == h[p].pc = "idle" /\ h'[p].op = "verify" /\ h'[p].pc # "done"

\* handler p's verify call found its token and the code matched
Succeeding(p) ==
    /\ h[p].op = "verify"
    /\ h[p].pc \in {"deleteCommit", "confirm"} \/ h[p].res = "verified200"

\* C1: once MAX_OTP_ATTEMPTS verify calls with a wrong code have found a token, no
\* verify call on that token succeeds any more, not even with the right code.
C1_NoSuccessAfterFiveWrong ==
    \A p \in Procs : Succeeding(p) => wrong[h[p].uuid] < MAX_OTP_ATTEMPTS

\* C2: after a verify call answered "incorrect", the stored attempts counter of the
\* token is the incremented one the call read back, and attemptsRemaining is
\* MAX_OTP_ATTEMPTS minus that stored counter.
C2_WrongGuessIsCounted ==
    \A p \in Procs :
        h[p].res = "mismatch400" =>
            \A t \in store :
                t.uuid = h[p].uuid =>
                    /\ t.attempts = h[p].rec.attempts
                    /\ h[p].remaining = MAX_OTP_ATTEMPTS - t.attempts

\* the stored tokens of number cn that are not expired
ActiveTokens(cn) == {t \in store : t.contactNumber = cn /\ now - t.createdAt < OTP_EXPIRY_MS}

\* C3: in every reachable state each number has at most one stored token that is
\* not expired.
C3_OneActiveTokenPerNumber ==
    \A t \in store : Cardinality(ActiveTokens(t.contactNumber)) <= 1

\* the transactions of the issue calls of p and q overlapped
Overlap(p, q) == q \in h[p].peers \/ p \in h[q].peers

\* C4: two issue calls for the same number whose transactions overlap never both
\* commit a token.
C4_ConcurrentIssuesNotBoth ==
    \A p, q \in Procs :
        (/\ p # q
         /\ h[p].op = "issue" /\ h[q].op = "issue"
         /\ h[p].cn = h[q].cn
         /\ Overlap(p, q))
        => ~(h[p].txn = "committed" /\ h[q].txn = "committed")

\* C5: two issue calls for the same number that both answered 200 created their
\* tokens at least OTP_COOLDOWN_MS apart (stated for calls whose transactions did
\* not overlap; overlapping calls are C4's).
C5_IssuesSpacedByCooldown ==
    \A p, q \in Procs :
        (/\ p # q
         /\ h[p].res = "issued200" /\ h[q].res = "issued200"
         /\ h[p].cn = h[q].cn
         /\ ~Overlap(p, q)
         /\ h[p].rec.createdAt <= h[q].rec.createdAt)
        => h[q].rec.createdAt - h[p].rec.createdAt >= OTP_COOLDOWN_MS

\* the verify call p has just made names a stored token by uuid, number and code,
\* less than five minutes after its creation
MatchesStored(p) ==
    \E t \in store :
        /\ t.uuid = h'[p].uuid
        /\ t.contactNumber = h'[p].cn
        /\ t.otp = h'[p].otp
        /\ t.createdAt > now - OTP_EXPIRY_MS

C7_NoSuccessAfterExpiry ==
    [][\A p \in Procs :
          (/\ VerifyFindStep(p)
           /\ \A t \in store : t.uuid = h'[p].uuid => now >= t.createdAt + OTP_EXPIRY_MS)
          => h'[p].pc = "abortInvalid"]_vars

\* a verify call with the right number and code, attempts below the cap, found no
\* document because the token, still stored, was five minutes old or older
C7_Witness ==
    \E p \in Procs :
        /\ h[p].op = "verify" /\ h[p].pc = "abortInvalid"
        /\ \E t \in store :
              /\ t.uuid = h[p].uuid
              /\ t.contactNumber = h[p].cn
              /\ t.otp = h[p].otp
              /\ t.attempts < MAX_OTP_ATTEMPTS
              /\ h[p].at >= t.createdAt + OTP_EXPIRY_MS

\* C8: when sendMessage throws after the token was committed, the step that handles
\* it leaves the collection as it is and answers with an error.
C8_SendFailureKeepsToken ==
    [][\A p \in Procs :
          (/\ h[p].op = "issue" /\ h[p].pc = "send" /\ h'[p].pc = "done"
           /\ h'[p].messageId = "")
          => (store' = store /\ h'[p].res = "error500")]_vars

\* an issue call answered 500 after its send failed, its token committed and stored
C8_Witness ==
    \E p \in Procs :
        /\ h[p].op = "issue" /\ h[p].res = "error500"
        /\ h[p].txn = "committed" /\ h[p].messageId = ""
        /\ h[p].rec \in store

\* a '+' followed by 2 to 15 digits
PlusAndDigits(s) ==
    /\ Len(s) >= 3 /\ Len(s) <= 16
    /\ s[1] = "+"
    /\ \A i \in 2..Len(s) : s[i] \in Digit

\* C9: an issue call whose number, whitespace removed, is not a '+' followed by 2 to
\* 15 digits is answered with the validation error in its first step: no transaction
\* is started, the collection and the uuid source are untouched, and the call is at
\* its end (sendMessage is never reached).
C9_InvalidNumberTouchesNothing ==
    [][\A p \in Procs :
          (h[p].pc = "idle" /\ h'[p].op = "issue" /\ ~PlusAndDigits(h'[p].cn))
          => /\ h'[p].pc = "done"
             /\ h'[p].res = "validation400"
             /\ h'[p].txn = "none"
             /\ store' = store
             /\ nextUuid' = nextUuid]_vars

\* a number of 16 digits was rejected, with tokens in the collection
C9_Witness ==
    \E p \in Procs :
        /\ h[p].op = "issue" /\ h[p].res = "validation400"
        /\ h[p].cn = NumB \o <<"6">>
        /\ h[p].txn = "none"
        /\ store # {}

(***************************************************************************)
(* The send pipeline                                                       *)
(***************************************************************************)
\* every attempt of the running call got as far as the raw send (so the session was
\* ready each time) and the raw send rejected with a transient error
AllTransient == \A i \in 1..Len(snd.log) : snd.log[i] = "transient"

\* C10: when the session stays ready and every raw send of a call of sendMessage
\* rejects with a transient error (Evaluation failed, Protocol error, Target closed),
\* the call never makes more than 3 raw sends, and it ends after exactly 3 of them by
\* throwing the "Failed to send message after 3 attempts" error that carries the
\* message of the last error.
C10_ThreeRawSendsThenExhausted ==
    AllTransient =>
        /\ snd.rawSends <= 3
        /\ snd.pc = "done" =>
              /\ snd.rawSends = 3
              /\ Len(snd.log) = 3
              /\ snd.result = "error"
              /\ IsTransient(snd.err)
              /\ "Failed to send message after 3 attempts" \in snd.thrown
              /\ snd.err \subseteq snd.thrown

C10_Witness ==
    /\ snd.pc = "done"
    /\ AllTransient
    /\ snd.rawSends = 3
    /\ snd.reloads > 0
    /\ snd.thrown = {"Target closed", "Failed to send message after 3 attempts"}

\* C11: whatever the raw sends do (resolve, time out, reject with a transient, a
\* non-retryable or another error, in any mix), a call of sendMessage makes at most 3
\* raw sends and at most 3 attempts, it has ended only with a message id or an error,
\* and once started it does end.
C11_AtMostThreeAndTerminates ==
    /\ [](/\ snd.rawSends <= 3
          /\ snd.retryCount <= 3
          /\ Len(snd.log) <= 3
          /\ snd.pc = "done" => snd.result \in {"id", "error"})
    /\ (snd.pc = "attempt" ~> snd.pc = "done")

\* a call ended after three raw sends that timed out, rejected with a transient error
\* and rejected with another error
C11_Witness ==
    /\ snd.pc = "done"
    /\ snd.rawSends = 3
    /\ snd.log = <<"timeout", "transient", "rejected">>
    /\ snd.result = "error"

\* C12: within one call of sendMessage at most one raw send is outstanding at any
\* instant, also after an attempt was abandoned by the 15 s timer.
C12_OneRawSendOutstanding == pending <= 1

\* the calls of client.destroy() and of client.initialize() in flight
Destroying ==
    Cardinality({r \in Callers : restart[r].pc = "destroying"})
    + Cardinality({i \in WdSlots : wd[i].pc = "destroying"})
    + (IF qr.pc = "destroying" THEN 1 ELSE 0)
Initializing ==
    Cardinality({r \in Callers : restart[r].pc = "initializing"})
    + Cardinality({i \in WdSlots : wd[i].pc = "initializing"})
    + (IF qr.pc = "initializing" THEN 1 ELSE 0)
    + (IF boot = "initializing" THEN 1 ELSE 0)
    + (IF snd.pc = "reinit" THEN 1 ELSE 0)

\* C13: across all callers (sendMessage, restartClient, generateQRCode, the
\* watchdogs) at most one of the adapter operations raw send, destroy and initialize
\* is in flight at any instant.
C13_OneAdapterOperationInFlight == pending + Destroying + Initializing <= 1

\* C14: a call of sendMessage whose first attempt finds the client not ready ends
\* there with the not-ready error: no raw send, no backoff wait, no second attempt.
C14_NotReadyFailsAtOnce ==
    (snd.log # <<>> /\ snd.log[1] = "notReady")
        => /\ snd.pc = "done"
           /\ Len(snd.log) = 1
           /\ snd.rawSends = 0
           /\ snd.thrown = NotReadyMsg

\* C15: a call of sendMessage whose number normalizes to the empty identifier (the
\* bare suffix) never calls the raw send, and ends with the invalid-number error.
C15_EmptyIdentifierNeverSent ==
    (snd.pc # "idle" /\ ChatId(snd.number) = <<Suffix>>)
        => /\ snd.rawSends = 0
           /\ snd.pc = "done" => snd.thrown = InvalidNumberMsg

\* C16: a call of sendMessage made while ready, with a number, whose body is empty
\* after trimming ends on its first attempt with the invalid-content error: no raw
\* send, no retry.
C16_EmptyBodyFailsAtOnce ==
    (snd.log # <<>> /\ snd.log[1] = "invalidContent")
        => /\ snd.pc = "done"
           /\ Len(snd.log) = 1
           /\ snd.retryCount = 1
           /\ snd.rawSends = 0
           /\ snd.result = "error"
           /\ snd.thrown = InvalidContentMsg

\* a call given a number and a body of blanks ended on the invalid-content error
C16_Witness ==
    /\ snd.pc = "done"
    /\ snd.number = <<"+", "1", "2">>
    /\ snd.message = <<" ">>
    /\ snd.log = <<"invalidContent">>
    /\ snd.thrown = InvalidContentMsg

\* C17: whenever an attempt of a call of sendMessage, the first, second or third,
\* fails with a non-retryable error (invalid number, invalid content, not
\* authenticated), the call ends at once by throwing that same error, unwrapped.
C17_NonRetryableThrownAsIs ==
    (snd.log # <<>> /\ IsNonRetryable(snd.err) /\ ~IsTransient(snd.err))
        => /\ snd.pc = "done"
           /\ snd.thrown = snd.err

\* C18: a call of restartClient that begins while another is between its destroy and
\* its initialize calls neither client.destroy() nor client.initialize().
C18_SecondRestartIsNoOp ==
    \A r \in Callers : restart[r].joined => (~restart[r].destroyed /\ ~restart[r].inited)

\* the session has never been ready: no 'ready' event, no identity, never CONNECTED
NeverReady == ~hist.everReady /\ ~readyReceived /\ ~client.info

\* C19: while the session authenticates but never becomes ready, the watchdogs
\* begin the destroy and initialize cycle at most once in total.
C19_WatchdogReinitializesOnce == NeverReady => hist.reinits <= 1

\* the session is ready: the 'ready' event received, identity present, or state CONNECTED
SessionReady == readyReceived \/ client.info \/ client.state = "CONNECTED"

\* C20: a watchdog never starts a page reload or a destroy while the session is ready.
C20_WatchdogActsOnlyWhenNotReady ==
    [][\A i \in WdSlots :
          (wd[i].pc \notin {"reload", "destroying"} /\ wd'[i].pc \in {"reload", "destroying"})
          => ~SessionReady]_vars

\* C21: once a 'disconnected' notification has been handled, getClientStatus reports
\* isReady = false and the readiness test of sendMessage fails, so that a send call
\* throws the not-ready error before any raw send.
C21_DisconnectedIsNotReady ==
    [][(readyReceived /\ ~readyReceived')
          => (~GetClientStatus.isReady' /\ ~ClientReady(client.state)')]_vars

\* handler p's verify call found its token eligible: its findOneAndUpdate returned
\* the document and its transaction is still open
HoldsToken(p) ==
    /\ h[p].op = "verify"
    /\ h[p].pc \in {"abortMismatch", "deleteCommit"}

StatusFindStep(p) == h[p].pc = "idle" /\ h'[p].op = "status"

\* C23: a status call on a stored token not older than 5 minutes answers isExpired =
\* false with the stored attempts and changes nothing in the collection; on a token
\* older than 5 minutes it answers isExpired = true after deleting the token; and a
\* status call on a uuid that is not stored answers not-found.
C23_StatusReportsAndExpires ==
    [][\A p \in Procs :
          /\ StatusFindStep(p) =>
                /\ store' = store
                /\ \A t \in store : t.uuid = h'[p].uuid =>
                      IF now <= t.createdAt + OTP_EXPIRY_MS
                      THEN /\ h'[p].pc = "done" /\ h'[p].res = "status200"
                           /\ ~h'[p].expired
                           /\ h'[p].rec.attempts = t.attempts
                      ELSE /\ h'[p].pc = "statusDelete"
                           /\ h'[p].expired
                /\ (\A t \in store : t.uuid # h'[p].uuid) =>
                      (h'[p].pc = "done" /\ h'[p].res = "notfound404")
          /\ (h[p].op = "status" /\ h[p].pc = "statusDelete" /\ h'[p].pc = "done") =>
                /\ h'[p].res = "status200" /\ h'[p].expired
                /\ \A t \in store' : t.uuid # h[p].uuid
                /\ \A t \in store : t.uuid # h[p].uuid => t \in store']_vars

\* a status call answered isExpired = true and its token is no longer stored
C23_Witness ==
    \E p \in Procs :
        /\ h[p].op = "status" /\ h[p].pc = "done"
        /\ h[p].res = "status200" /\ h[p].expired
        /\ now > h[p].rec.createdAt + OTP_EXPIRY_MS
        /\ \A t \in store : t.uuid # h[p].uuid

\* C24: a verify call that matched and committed the deletion answers success
\* whether the confirmation send succeeds or fails, and the token stays deleted.
C24_SuccessDespiteConfirmationFailure ==
    [][\A p \in Procs :
          (h[p].op = "verify" /\ h[p].pc = "confirm" /\ h'[p].pc = "done") =>
              /\ h'[p].res = "verified200"
              /\ store' = store
              /\ \A t \in store' : t.uuid # h[p].rec.uuid]_vars

\* a verify call answered success although its confirmation send failed
C24_Witness ==
    \E p \in Procs :
        /\ h[p].op = "verify" /\ h[p].pc = "done"
        /\ h[p].res = "verified200"
        /\ h[p].messageId = MessageId("failed")
        /\ h[p].rec.uuid \in consumed
        /\ \A t \in store : t.uuid # h[p].rec.uuid

\* C26: a verify call whose uuid names a stored token and whose contact number,
\* once formatted, differs from the token's is answered "invalid or expired" even
\* with the correct code, and the token stays stored with the same attempts.
C26_OtherNumberIsInvalid ==
    [][\A p \in Procs :
          /\ (VerifyFindStep(p)
                 /\ \E t \in store : t.uuid = h'[p].uuid /\ t.contactNumber # h'[p].cn)
                => /\ h'[p].pc = "abortInvalid"
                   /\ store' = store
          /\ (h[p].op = "verify" /\ h[p].pc = "abortInvalid" /\ h'[p].pc = "done")
                => /\ h'[p].res = "invalid400"
                   /\ store' = store]_vars

\* a verify call with the code of a stored, unexpired token of another number was
\* answered "invalid or expired"
C26_Witness ==
    \E p \in Procs : \E t \in store :
        /\ h[p].op = "verify" /\ h[p].pc = "done" /\ h[p].res = "invalid400"
        /\ t.uuid = h[p].uuid
        /\ t.otp = h[p].otp
        /\ t.contactNumber # h[p].cn
        /\ h[p].cn = NumB
        /\ t.attempts = 0
        /\ t.createdAt > now - OTP_EXPIRY_MS

\* the attempt that failed last ended with a transient error and was not the third
RecoverableFailure(c) ==
    /\ Len(c.log) > 0
    /\ Len(c.log) < 3
    /\ c.log[Len(c.log)] = "transient"

\* C27: inside a call of sendMessage the page reload and, when the reload fails, the
\* re-initialization are called only after an attempt that failed with a transient
\* error and was not the third; after a timeout, after any other error and after
\* the third failed attempt the call goes on without either of them.
C27_RecoveryOnlyAfterTransient ==
    [][/\ (snd'.reloads > snd.reloads \/ snd'.inits > snd.inits)
             => (RecoverableFailure(snd) /\ snd'.inits <= snd'.reloads)
       /\ (Len(snd'.log) > Len(snd.log) /\ ~RecoverableFailure(snd'))
             => snd'.pc \in {"done", "backoff"}
       /\ (snd.pc \in {"done", "backoff"} /\ snd'.pc # "idle" /\ snd'.log = snd.log)
             => (snd'.reloads = snd.reloads /\ snd'.inits = snd.inits)]_vars

\* a call recovered by reload and re-initialization after its first, transient
\* failure, and by neither after the timeout and the third failure that followed
C27_Witness ==
    /\ snd.pc = "done"
    /\ snd.log = <<"transient", "timeout", "transient">>
    /\ snd.reloads = 1
    /\ snd.inits = 1

\* C28: a call of restartClient, in whatever state the session is (no client made
\* yet and UNPAIRED included), calls client.initialize() only after its own
\* client.destroy() has resolved, and fails only when one of the two calls rejects.
C28_RestartDestroysThenConnects ==
    \A r \in Callers :
        /\ restart[r].inited => restart[r].destroyed
        /\ (restart[r].pc = "done" /\ restart[r].res = "error")
              => (restart[r].destroyed \/ restart[r].inited)

\* C29: a call of generateQRCode made while client.info is set calls neither
\* client.destroy() nor client.initialize(); made while client.info is not set it
\* calls client.destroy() and, once that has resolved, client.initialize(), whatever
\* client.state is.
C29_ForceQrDestroysThenConnects ==
    [][/\ (qr.pc = "idle" /\ qr'.pc # "idle") =>
              IF client.info
              THEN qr'.pc = "done" /\ qr'.res = "ok" /\ ~qr'.destroyed /\ ~qr'.inited
              ELSE qr'.pc = "destroying" /\ qr'.destroyed
       /\ qr'.inited => qr'.destroyed]_vars

\* C30: a handler of POST /send or GET /verify whose transaction met a write
\* conflict for the first time does not answer yet: it runs the transaction once
\* more, and only a second failure is answered with the generic 500.
C30_ConflictRetriedOnce ==
    [][\A p \in Procs :
          (h[p].op \in {"issue", "verify"} /\ h[p].pc = "abortError" /\ h'[p] # h[p])
              => ~(h'[p].pc = "done" /\ h'[p].res = "error500")]_vars

\* both sends of a contact form request failed
BothSendsFailed == cf.customerErr # {} /\ cf.adminErr # {}

\* C25: a contact form request that fails because both its sends failed is answered
\* with the status of what made them fail: 503 for not ready or not authenticated,
\* 400 for an invalid phone number, 504 for a send that timed out, 500 otherwise
\* (stated for the requests whose two sends failed for the same kind of reason).
C25_StatusFollowsCause ==
    (cf.pc = "done" /\ BothSendsFailed
        /\ ErrorStatus(cf.customerErr) = ErrorStatus(cf.adminErr))
            => cf.status = ErrorStatus(cf.adminErr)

\* the digits of a string, in order
DigitsOnly(s) == SelectSeq(s, LAMBDA c : c \in Digit)

\* the string holds the channel suffix
HasSuffix(s) == \E i \in 1..Len(s) : s[i] = Suffix

\* C31: the identifier a call of sendMessage gives to the raw send is, for a number
\* that does not hold the channel suffix, the digits of the number (every other
\* character removed, a '+' in any position included) followed by the suffix, and
\* for a number that holds the suffix the trimmed number unchanged.
C31_IdentifierIsDigitsAndSuffix ==
    snd.rawSends > 0 =>
        snd.chatId = IF HasSuffix(snd.number)
                     THEN Trim(snd.number)
                     ELSE DigitsOnly(snd.number) \o <<Suffix>>

\* C32: a contact form request that passed the validations and the readiness check
\* calls the admin send whatever the customer send did; it is answered 200 exactly
\* when at least one of the two sends returned a message id; and the 200 response
\* reports customerMessageSent and adminMessageSent as each send ended.
C32_AdminSendAlwaysTried ==
    [][/\ (cf.pc = "customer" /\ cf' # cf) => cf'.pc = "admin"
       /\ (cf.pc = "admin" /\ cf' # cf) =>
             /\ cf'.pc = "done" <=> (cf.customerErr # {} /\ cf'.adminErr # {})
             /\ cf'.pc = "done" => cf'.status # 200
             /\ cf'.pc # "done" => cf'.pc = "save"
       /\ (cf.pc = "save" /\ cf' # cf) =>
             /\ cf'.pc = "done" /\ cf'.status = 200
             /\ cf.customerErr = {} \/ cf.adminErr = {}
             /\ cf'.customerMessageSent <=> cf.customerErr = {}
             /\ cf'.adminMessageSent <=> cf.adminErr = {}]_vars

\* a request answered 200 whose customer send failed and whose admin send succeeded
C32_Witness ==
    /\ cf.pc = "done" /\ cf.status = 200
    /\ cf.customerErr # {} /\ cf.adminErr = {}
    /\ ~cf.customerMessageSent /\ cf.adminMessageSent

\* C33: however often initializeWhatsAppClient is called, at most one client is
\* made and client.initialize() is called by it once; a call made while a client
\* exists leaves the client, the startup initialize, the handlers' pending
\* 'authenticated' and the watchdogs as they were.
C33_OneClientOneConnect ==
    /\ [](hist.made <= 1 /\ hist.connects <= 1)
    /\ [][(client.exists /\ ~hist.again /\ hist'.again)
             => /\ client' = client
                /\ boot' = boot
                /\ authDue' = authDue
                /\ wd' = wd
                /\ readyReceived' = readyReceived]_vars

\* initializeWhatsAppClient was called again while the first client was running
C33_Witness ==
    /\ hist.again
    /\ hist.made = 1 /\ hist.connects = 1
    /\ client.exists
    /\ \E i \in WdSlots : wd[i].pc # "idle"

\* C34: a call of sendMessage made while no client object exists ends with the
\* not-ready error and without a raw send, and getClientStatus reports
\* isReady = false in that state.
C34_NoClientIsNotReady ==
    (~client.exists /\ snd.pc = "done")
        => /\ snd.result = "error"
           /\ "not ready" \in snd.thrown
           /\ snd.rawSends = 0
           /\ ~GetClientStatus.isReady

\* C35: a handler of POST /send or GET /verify that has answered has no open
\* transaction: the one it started was committed or aborted first, also on the
\* missing-parameter answer of verify and the cooldown answer of issue.
C35_NoTransactionLeftOpen ==
    \A p \in Procs :
        (h[p].op \in {"issue", "verify"} /\ h[p].pc = "done") => h[p].txn # "active"

\* C36: at every instant and for every stored token with attempts below the cap,
\* the isExpired a status call would report is false exactly when the filter of a
\* verify call with the token's uuid and number would find the token.
C36_AgeTestsAgree ==
    \A t \in store :
        t.attempts < MAX_OTP_ATTEMPTS
            => (~IsExpired(t) <=> Eligible(t, t.uuid, t.contactNumber))

\* C37: one run of ensureReady calls client.pupPage.reload at most once, also when
\* the reload rejects: no later iteration of the run calls it again.
C37_WatchdogReloadsOnce ==
    [][\A i \in WdSlots :
          (wd[i].pc # "reload" /\ wd'[i].pc = "reload") => ~wd[i].tried]_vars

====
